---- MODULE Spec2Model ----
(***************************************************************************)
(* Model of scrabble_game.py: the scoring functions, the word validator,   *)
(* and the round/timer machinery of class ScrabbleGame (a Tk event loop    *)
(* on the main thread and one countdown thread per round).                 *)
(*                                                                         *)
(* A Python str is a sequence of one-character strings (ASCII only).       *)
(* A label text built with an f-string is kept as its template plus the    *)
(* interpolated integers.  Widget colours, fonts and geometry are left out.*)
(***************************************************************************)
EXTENDS Integers, Sequences, FiniteSets, TLC

VARIABLES
    total_score,      \* self.total_score
    current_round,    \* self.current_round
    required_length,  \* self.required_length (0 stands for None)
    timer_running,    \* self.timer_running
    stop_event,       \* self.stop_event (TRUE = set)
    threads,          \* countdown threads not yet reaped; the last one is self.timer_thread
    timer_label,      \* text of self.timer_label
    warning_label,    \* text of self.warning_label
    after0,           \* root.after(0, ...) display updates queued for the event loop
    pending_start,    \* root.after(1000/2000, self.start_round) callbacks not yet fired
    main_pc,          \* main thread: "init" | "idle" | "join" | "unit"
    main_more,        \* start_round calls still to make when the current join returns
    screen,           \* "game" | "end" | "quit": which widgets are packed
    quit_pending,     \* root.after(2000, root.quit) scheduled
    mainloop,         \* root.mainloop() is dispatching
    hist,             \* history of the current round and game (observer, not program state)
    call              \* last direct call made by the unit-test harness (observer)

vars == <<total_score, current_round, required_length, timer_running, stop_event,
          threads, timer_label, warning_label, after0, pending_start, main_pc,
          main_more, screen, quit_pending, mainloop, hist, call>>

game_vars == <<total_score, current_round, required_length, timer_running, stop_event,
          threads, timer_label, warning_label, after0, pending_start, main_pc,
          main_more, screen, quit_pending, mainloop, hist>>

-----------------------------------------------------------------------------
(* Bounds of the model *)

\* longest string enumerated exhaustively by the unit harness
MaxLen == 3
\* largest elapsed time handed to calculate_time_bonus by the unit harness
MaxElapsed == 18
\* display updates that may wait in the event queue at once
MaxQueue == 1
\* start_round callbacks that may be scheduled at once
MaxPending == 2
\* accepted submissions per game
MaxAccepted == 2
\* the required lengths drawn in the game are MIN_LENGTH .. MIN_LENGTH + MaxLengthSpread
MaxLengthSpread == 0

(* Program constants *)
max_rounds == 10
ROUND_SECONDS == 15
MIN_LENGTH == 3
MAX_LENGTH == 7

-----------------------------------------------------------------------------
(* Characters and strings *)

LowerSeq ==
    <<"a","b","c","d","e","f","g","h","i","j","k","l","m",
      "n","o","p","q","r","s","t","u","v","w","x","y","z">>
UpperSeq ==
    <<"A","B","C","D","E","F","G","H","I","J","K","L","M",
      "N","O","P","Q","R","S","T","U","V","W","X","Y","Z">>

Range(s) == {s[i] : i \in 1..Len(s)}
IndexOf(c, s) == CHOOSE i \in 1..Len(s) : s[i] = c

SetMin(S) == CHOOSE x \in S : \A y \in S : x <= y
SetMax(S) == CHOOSE x \in S : \A y \in S : x >= y

\* str.upper() / str.lower() on one character
UpperChar(c) == IF c \in Range(LowerSeq) THEN UpperSeq[IndexOf(c, LowerSeq)] ELSE c
LowerChar(c) == IF c \in Range(UpperSeq) THEN LowerSeq[IndexOf(c, UpperSeq)] ELSE c
Upper(w) == [i \in 1..Len(w) |-> UpperChar(w[i])]
Lower(w) == [i \in 1..Len(w) |-> LowerChar(w[i])]

IsAlphaChar(c) == c \in Range(LowerSeq) \cup Range(UpperSeq)
IsSpaceChar(c) == c = " "

\* str.isalpha(): non-empty and every character a letter
IsAlpha(w) == Len(w) > 0 /\ \A i \in 1..Len(w) : IsAlphaChar(w[i])

\* str.strip(): drop leading and trailing whitespace
Strip(w) ==
    LET keep == {i \in 1..Len(w) : ~IsSpaceChar(w[i])}
    IN  IF keep = {} THEN <<>> ELSE SubSeq(w, SetMin(keep), SetMax(keep))

-----------------------------------------------------------------------------
(* calculate_score *)

letter_values ==
    [c \in Range(UpperSeq) |->
        CASE c \in {"A","E","I","O","U","L","N","R","S","T"} -> 1
          [] c \in {"D","G"} -> 2
          [] c \in {"B","C","M","P"} -> 3
          [] c \in {"F","H","V","W","Y"} -> 4
          [] c \in {"K"} -> 5
          [] c \in {"J","X"} -> 8
          [] c \in {"Q","Z"} -> 10]

\* letter_values.get(key, 0)
LetterValueGet(key) == IF key \in DOMAIN letter_values THEN letter_values[key] ELSE 0

RECURSIVE SumValues(_, _)
SumValues(w, i) == IF i > Len(w) THEN 0 ELSE w[i] + SumValues(w, i + 1)

\* the same sum with letter.upper() forgotten
calculate_score_NoUpper(word) ==
    SumValues([i \in 1..Len(word) |-> LetterValueGet(word[i])], 1)

calculate_score(word) ==
    SumValues([i \in 1..Len(word) |-> LetterValueGet(UpperChar(word[i]))], 1)

-----------------------------------------------------------------------------
(* is_valid_word: the spell checker's word list, cut down to a few entries *)

Dictionary ==
    { <<"c","a","b">>,
      <<"a","b","l","e">>,
      <<"a","p","p","l","e">>,
      <<"o","r","a","n","g","e">>,
      <<"c","a","b","b","a","g","e">>,
      <<"h","i">>,
      <<"h","e","l","l","o">> }

is_valid_word(word) == Lower(word) \in Dictionary

-----------------------------------------------------------------------------
(* calculate_time_bonus *)

\* the tiers with exclusive upper edges
calculate_time_bonus_Exclusive(elapsed_time) ==
    IF elapsed_time < 5 THEN 20
    ELSE IF elapsed_time < 10 THEN 10
    ELSE IF elapsed_time < 15 THEN 5
    ELSE 0

calculate_time_bonus(elapsed_time) ==
    IF elapsed_time <= 5 THEN 20
    ELSE IF elapsed_time <= 10 THEN 10
    ELSE IF elapsed_time <= 15 THEN 5
    ELSE 0

-----------------------------------------------------------------------------
(* Label texts *)

\* f"Time remaining: {remaining} seconds"
TimerText(remaining) == <<"Time", "remaining:", remaining, "seconds">>
\* int(self.timer_label.cget("text").split()[2])
ParseRemaining(text) == text[3]

LabelText(msg, n, b) == [msg |-> msg, n |-> n, b |-> b]
NoText == LabelText("", 0, 0)
MsgNotAlphabetic == LabelText("Please enter only alphabetic characters.", 0, 0)
MsgWrongLength(n) == LabelText("Word must be exactly {} letters long.", n, 0)
MsgNotInDictionary == LabelText("The word is not in the dictionary.", 0, 0)
MsgScore(base, bonus) == LabelText("Score: {} (Bonus: {})", base, bonus)
MsgTimesUp == LabelText("Time's up!", 0, 0)

RejectionTexts ==
    {MsgNotAlphabetic, MsgNotInDictionary} \cup {MsgWrongLength(n) : n \in 0..MAX_LENGTH}

-----------------------------------------------------------------------------
(* check_word: the validation pipeline on the stripped entry text *)

\* the pipeline with the length check moved in front of the alphabetic check
Validate_LengthFirst(user_input, required) ==
    IF Len(user_input) # required THEN "WrongLength"
    ELSE IF ~IsAlpha(user_input) THEN "NotAlphabetic"
    ELSE IF ~is_valid_word(user_input) THEN "NotInDictionary"
    ELSE "Valid"

Validate(user_input, required) ==
    IF ~IsAlpha(user_input) THEN "NotAlphabetic"
    ELSE IF Len(user_input) # required THEN "WrongLength"
    ELSE IF ~is_valid_word(user_input) THEN "NotInDictionary"
    ELSE "Valid"

RejectionText(outcome, required) ==
    CASE outcome = "NotAlphabetic" -> MsgNotAlphabetic
      [] outcome = "WrongLength" -> MsgWrongLength(required)
      [] outcome = "NotInDictionary" -> MsgNotInDictionary

\* the elapsed time taken to be the remaining time itself
ElapsedTime_NoSubtract(text) == ParseRemaining(text)

\* elapsed_time = 15 - int(self.timer_label.cget("text").split()[2])
ElapsedTime(text) == 15 - ParseRemaining(text)

\* a rejection that also moves on to the next round
Reject_Advance(text) ==
    /\ warning_label' = text
    /\ pending_start' = pending_start + 1
    /\ UNCHANGED <<total_score, hist>>

\* show_warning(message); return
Reject(text) ==
    /\ warning_label' = text
    /\ UNCHANGED <<total_score, pending_start, hist>>

\* lines 211-219 and show_score
Accept(user_input) ==
    LET base_score == calculate_score(user_input)
        time_bonus == calculate_time_bonus(ElapsedTime(timer_label))
        round_score == base_score + time_bonus
        \* hist.round_sum leaves out what a round gains once its timer has expired
        counted == ~hist.expired
    IN  /\ hist.accepted < MaxAccepted
        /\ pending_start < MaxPending
        /\ total_score' = total_score + round_score
        /\ warning_label' = MsgScore(base_score, time_bonus)
        /\ pending_start' = pending_start + 1
        /\ hist' = [hist EXCEPT !.scored = TRUE,
                                !.accepted = @ + 1,
                                !.round_sum = IF counted THEN @ + round_score ELSE @]

\* self.check_word() with `text` in the entry
check_word(text) ==
    /\ IF ~timer_running
       THEN UNCHANGED <<total_score, warning_label, pending_start, hist>>
       ELSE LET user_input == Strip(text)
                outcome == Validate(user_input, required_length)
            IN  IF outcome = "Valid"
                THEN Accept(user_input)
                ELSE Reject(RejectionText(outcome, required_length))
    /\ UNCHANGED <<current_round, required_length, timer_running, stop_event, threads,
                   timer_label, after0, main_pc, main_more, screen, quit_pending,
                   mainloop>>

-----------------------------------------------------------------------------
(* Countdown threads *)

\* a countdown whose range starts one second too high
NewThread_OneMore == [pc |-> "check", remaining |-> ROUND_SECONDS + 1]
\* a thread about to enter the loop of line 171
NewThread == [pc |-> "check", remaining |-> ROUND_SECONDS]
\* the round's countdown has reported no value yet
NoTick == ROUND_SECONDS + 1
Alive(t) == t.pc # "done"
\* the thread positions that call into Tk (root.after, widget.config)
TkCallPcs == {"tick", "exp_display", "exp_warn", "exp_after"}
\* a call into Tk from a countdown thread is served by the event loop only
TkServed == mainloop /\ main_pc = "idle"

\* line 172: if self.stop_event.is_set(): break
ThreadCheck(i) ==
    /\ threads[i].pc = "check"
    /\ threads' = [threads EXCEPT ![i].pc = IF stop_event THEN "final" ELSE "tick"]
    /\ UNCHANGED <<total_score, current_round, required_length, timer_running, stop_event,
                   timer_label, warning_label, after0, pending_start, main_pc, main_more,
                   screen, quit_pending, mainloop, hist, call>>

\* lines 174-175: self.update_timer_display(remaining); time.sleep(1); next iteration
ThreadTick(i) ==
    /\ threads[i].pc = "tick"
    /\ TkServed
    /\ Len(after0) < MaxQueue
    /\ after0' = Append(after0, threads[i].remaining)
    /\ threads' = [threads EXCEPT ![i] =
                      IF @.remaining > 1
                      THEN [pc |-> "check", remaining |-> @.remaining - 1]
                      ELSE [pc |-> "final", remaining |-> 0]]
    /\ hist' = [hist EXCEPT !.last_tick = threads[i].remaining]
    /\ UNCHANGED <<total_score, current_round, required_length, timer_running, stop_event,
                   timer_label, warning_label, pending_start, main_pc, main_more,
                   screen, quit_pending, mainloop, call>>

\* the code after the loop without the check of line 176
ThreadFinal_NoCheck(i) ==
    /\ threads[i].pc = "final"
    /\ threads' = [threads EXCEPT ![i].pc = "exp_display"]
    /\ UNCHANGED <<total_score, current_round, required_length, timer_running, stop_event,
                   timer_label, warning_label, after0, pending_start, main_pc, main_more,
                   screen, quit_pending, mainloop, hist, call>>

\* line 176: if not self.stop_event.is_set():
ThreadFinal(i) ==
    /\ threads[i].pc = "final"
    /\ threads' = [threads EXCEPT ![i].pc = IF stop_event THEN "done" ELSE "exp_display"]
    /\ UNCHANGED <<total_score, current_round, required_length, timer_running, stop_event,
                   timer_label, warning_label, after0, pending_start, main_pc, main_more,
                   screen, quit_pending, mainloop, hist, call>>

\* a countdown that reports one second below zero when it has run down
ThreadExpireDisplay_BelowZero(i) ==
    /\ threads[i].pc = "exp_display"
    /\ TkServed
    /\ Len(after0) < MaxQueue
    /\ after0' = Append(after0, -1)
    /\ threads' = [threads EXCEPT ![i].pc = "exp_warn"]
    /\ hist' = [hist EXCEPT !.last_tick = 0]
    /\ UNCHANGED <<total_score, current_round, required_length, timer_running, stop_event,
                   timer_label, warning_label, pending_start, main_pc, main_more,
                   screen, quit_pending, mainloop, call>>

\* line 177: self.update_timer_display(0)
ThreadExpireDisplay(i) ==
    /\ threads[i].pc = "exp_display"
    /\ TkServed
    /\ Len(after0) < MaxQueue
    /\ after0' = Append(after0, 0)
    /\ threads' = [threads EXCEPT ![i].pc = "exp_warn"]
    /\ hist' = [hist EXCEPT !.last_tick = 0]
    /\ UNCHANGED <<total_score, current_round, required_length, timer_running, stop_event,
                   timer_label, warning_label, pending_start, main_pc, main_more,
                   screen, quit_pending, mainloop, call>>

\* line 179: self.warning_label.config(text="Time's up!")
ThreadExpireWarn(i) ==
    /\ threads[i].pc = "exp_warn"
    /\ TkServed
    /\ warning_label' = MsgTimesUp
    /\ threads' = [threads EXCEPT ![i].pc = "exp_after"]
    /\ UNCHANGED <<total_score, current_round, required_length, timer_running, stop_event,
                   timer_label, after0, pending_start, main_pc, main_more,
                   screen, quit_pending, mainloop, hist, call>>

\* line 181: self.root.after(1000, self.start_round)
ThreadExpireAfter(i) ==
    /\ threads[i].pc = "exp_after"
    /\ TkServed
    /\ pending_start < MaxPending
    /\ pending_start' = pending_start + 1
    /\ threads' = [threads EXCEPT ![i].pc = "done"]
    /\ hist' = [hist EXCEPT !.expired = TRUE]
    /\ UNCHANGED <<total_score, current_round, required_length, timer_running, stop_event,
                   timer_label, warning_label, after0, main_pc, main_more,
                   screen, quit_pending, mainloop, call>>

\* a call into Tk once the main loop has exited raises RuntimeError in the thread
ThreadTkError(i) ==
    /\ threads[i].pc \in TkCallPcs
    /\ ~mainloop
    /\ threads' = [threads EXCEPT ![i].pc = "done"]
    /\ UNCHANGED <<total_score, current_round, required_length, timer_running, stop_event,
                   timer_label, warning_label, after0, pending_start, main_pc, main_more,
                   screen, quit_pending, mainloop, hist, call>>

-----------------------------------------------------------------------------
(* start_round / start_timer on the main thread *)

\* lines 162-165: the threads once the new countdown thread is started
WithNewThread(ths) == Append(SelectSeq(ths, Alive), NewThread)

\* start_timer without lines 159-161: the new thread is started at once
start_timer_NoJoin(ths, more) ==
    /\ stop_event' = FALSE
    /\ timer_running' = TRUE
    /\ threads' = WithNewThread(ths)
    /\ main_pc' = "idle"
    /\ main_more' = 0

\* start_timer up to the join (lines 159-161), or to its end when there is nothing to join
start_timer(ths, more) ==
    IF timer_running /\ ths # <<>>
    THEN /\ stop_event' = TRUE
         /\ threads' = ths
         /\ main_pc' = "join"
         /\ main_more' = more
         /\ UNCHANGED timer_running
    ELSE /\ stop_event' = FALSE
         /\ timer_running' = TRUE
         /\ threads' = WithNewThread(ths)
         /\ main_pc' = "idle"
         /\ main_more' = 0

\* random.randint(3, 7), as far as the model draws it
DrawnLengths ==
    {len \in MIN_LENGTH..MAX_LENGTH : len <= MIN_LENGTH + MaxLengthSpread}

\* start_round without the test of line 135: the round counter always moves on
start_round_NoLimit(round, ths, more, scr, h) ==
    /\ current_round' = round + 1
    /\ \E len \in DrawnLengths : required_length' = len
    /\ warning_label' = NoText
    /\ hist' = [h EXCEPT !.expired = FALSE, !.scored = FALSE,
                          !.last_tick = NoTick, !.label_fresh = FALSE,
                          !.stale_updates = Len(after0)]
    /\ screen' = scr
    /\ start_timer(ths, more)

\* start_round with self.current_round = round, the threads ths, the widgets of
\* screen scr packed and the round history h
start_round(round, ths, more, scr, h) ==
    IF round < max_rounds
    THEN /\ current_round' = round + 1
         /\ \E len \in DrawnLengths : required_length' = len
         /\ warning_label' = NoText
         /\ hist' = [h EXCEPT !.expired = FALSE, !.scored = FALSE,
                               !.last_tick = NoTick, !.label_fresh = FALSE,
                               !.stale_updates = Len(after0)]
         /\ screen' = scr
         /\ start_timer(ths, more)
    ELSE \* show_end_game_screen
         /\ screen' = "end"
         /\ current_round' = round
         /\ threads' = ths
         /\ main_pc' = "idle"
         /\ main_more' = 0
         /\ hist' = h
         /\ UNCHANGED <<required_length, warning_label, stop_event, timer_running>>

\* __init__ line 81: setup_gui(), which ends with the first start_round()
Construct ==
    /\ main_pc = "init"
    /\ start_round(current_round, threads, 0, screen, hist)
    /\ UNCHANGED <<total_score, timer_label, after0, pending_start, quit_pending,
                   mainloop, call>>

\* the event loop runs a scheduled self.start_round
FireStartRound ==
    /\ mainloop /\ main_pc = "idle"
    /\ pending_start > 0
    /\ pending_start' = pending_start - 1
    /\ start_round(current_round, threads, 0, screen, hist)
    /\ UNCHANGED <<total_score, timer_label, after0, quit_pending, mainloop, call>>

\* self.timer_thread.join() returns; start_timer goes on (lines 162-165) and the
\* caller makes the start_round calls that remain
JoinReturn ==
    /\ main_pc = "join"
    /\ ~Alive(threads[Len(threads)])
    /\ IF main_more = 0
       THEN /\ stop_event' = FALSE
            /\ timer_running' = TRUE
            /\ threads' = WithNewThread(threads)
            /\ main_pc' = "idle"
            /\ main_more' = 0
            /\ hist' = [hist EXCEPT !.in_reset = FALSE]
            /\ UNCHANGED <<current_round, required_length, warning_label, screen>>
       ELSE /\ timer_running' = TRUE
            /\ start_round(current_round, WithNewThread(threads), main_more - 1,
                           screen, hist)
    /\ UNCHANGED <<total_score, timer_label, after0, pending_start, quit_pending,
                   mainloop, call>>

\* reset_game: zero the state, setup_gui() (new widgets and a start_round), start_round()
reset_game ==
    /\ mainloop /\ main_pc = "idle"
    /\ total_score' = 0
    /\ timer_label' = TimerText(15)
    /\ start_round(0, threads, 1, "game",
                   [hist EXCEPT !.accepted = 0, !.round_sum = 0, !.in_reset = TRUE])
    /\ UNCHANGED <<after0, pending_start, quit_pending, mainloop, call>>

\* quit_game: show the final score and schedule root.quit
quit_game ==
    /\ mainloop /\ main_pc = "idle"
    /\ screen' = "quit"
    /\ quit_pending' = TRUE
    /\ UNCHANGED <<total_score, current_round, required_length, timer_running, stop_event,
                   threads, timer_label, warning_label, after0, pending_start, main_pc,
                   main_more, mainloop, hist, call>>

\* the event loop runs the scheduled root.quit: mainloop() returns, and the callbacks
\* still scheduled are never run
RootQuit ==
    /\ mainloop /\ main_pc = "idle"
    /\ quit_pending
    /\ mainloop' = FALSE
    /\ after0' = <<>>
    /\ pending_start' = 0
    /\ hist' = [hist EXCEPT !.stale_updates = 0]
    /\ UNCHANGED <<total_score, current_round, required_length, timer_running, stop_event,
                   threads, timer_label, warning_label, main_pc, main_more, screen,
                   quit_pending, call>>

\* the event loop runs a queued timer_label.config(text=...)
RunDisplay ==
    /\ mainloop /\ main_pc = "idle"
    /\ after0 # <<>>
    /\ timer_label' = TimerText(Head(after0))
    /\ after0' = Tail(after0)
    /\ hist' = IF hist.stale_updates > 0
               THEN [hist EXCEPT !.stale_updates = @ - 1, !.label_fresh = FALSE]
               ELSE [hist EXCEPT !.label_fresh = TRUE]
    /\ UNCHANGED <<total_score, current_round, required_length, timer_running, stop_event,
                   threads, warning_label, pending_start, main_pc, main_more, screen,
                   quit_pending, mainloop, call>>

-----------------------------------------------------------------------------
(* The game: the event loop, the player and the countdown threads *)

\* what the player may have typed when Submit is pressed
GameInputs ==
    { <<"c","a","b">>,
      <<"a","b","l","e">>,
      <<"a","b","c">>,
      <<"1","a">> }
\* ("cab" is a word of three letters, "able" one of four, "abc" is no word)

\* the Submit button: check_word with some text in the entry
Submit ==
    /\ mainloop /\ main_pc = "idle"
    /\ \E text \in GameInputs : check_word(text)
    /\ UNCHANGED call

\* the history of a game that has not begun: last_tick is the value the round's
\* countdown reported last, label_fresh whether the timer label was written by the
\* round's own countdown, stale_updates how many queued display updates are older
\* than the round
NoHistory == [expired |-> FALSE, scored |-> FALSE, accepted |-> 0, round_sum |-> 0,
              in_reset |-> FALSE, last_tick |-> NoTick, label_fresh |-> FALSE,
              stale_updates |-> 0]
NoCall == [fn |-> "none", word |-> <<>>, n |-> 0, before |-> 0, ret |-> 0]

\* the fields as __init__ sets them (lines 73-79), setup_gui's widgets created
Init ==
    /\ total_score = 0
    /\ current_round = 0
    /\ required_length = 0
    /\ timer_running = FALSE
    /\ stop_event = FALSE
    /\ threads = <<>>
    /\ timer_label = TimerText(15)
    /\ warning_label = NoText
    /\ after0 = <<>>
    /\ pending_start = 0
    /\ main_pc = "init"
    /\ main_more = 0
    /\ screen = "game"
    /\ quit_pending = FALSE
    /\ mainloop = TRUE
    /\ hist = NoHistory
    /\ call = NoCall

ThreadStep ==
    \E i \in DOMAIN threads :
        \/ ThreadCheck(i)
        \/ ThreadTick(i)
        \/ ThreadFinal(i)
        \/ ThreadExpireDisplay(i)
        \/ ThreadExpireWarn(i)
        \/ ThreadExpireAfter(i)
        \/ ThreadTkError(i)

Next ==
    \/ Construct
    \/ FireStartRound
    \/ JoinReturn
    \/ RunDisplay
    \/ Submit
    \/ reset_game
    \/ quit_game
    \/ RootQuit
    \/ ThreadStep

Spec == Init /\ [][Next]_vars

\* the game played without reset_game and quit_game: the operating system keeps
\* running a countdown thread that can take a step, and the event loop runs every
\* callback that is due
ThreadRun ==
    \E i \in DOMAIN threads :
        \/ ThreadCheck(i)
        \/ ThreadTick(i)
        \/ ThreadFinal(i)
        \/ ThreadExpireDisplay(i)
        \/ ThreadExpireWarn(i)
        \/ ThreadExpireAfter(i)

NextPlay ==
    \/ Construct
    \/ FireStartRound
    \/ JoinReturn
    \/ RunDisplay
    \/ Submit
    \/ ThreadRun

SpecPlay ==
    /\ Init
    /\ [][NextPlay]_vars
    /\ WF_vars(Construct)
    /\ WF_vars(FireStartRound)
    /\ WF_vars(JoinReturn)
    /\ WF_vars(RunDisplay)
    /\ WF_vars(ThreadRun)

-----------------------------------------------------------------------------
(* The unit tests' harness: a constructed game whose fields and labels the   *)
(* test sets, then one direct call                                           *)

InputChars == {"a", "b", "c", "C", "1", " "}
StringsUpTo(n) == UNION {[1..k -> InputChars] : k \in 0..n}
NamedWords ==
    { <<"a","p","p","l","e">>, <<"o","r","a","n","g","e">>,
      <<"c","a","b","b","a","g","e">>, <<"C","A","B","B","A","G","E">>,
      <<"H","E","L","L","O">>, <<"h","e","l","l","o">>,
      <<"o","R","A","N","G","e">>, <<"h","i">>,
      <<"1","a">>, <<"1","2","3">>, <<"1","a","2","b","3">>,
      <<"q","u","o","x","y","z">>, <<"a","b","l","e">>, <<" ","a","b","l","e"," ">>,
      <<"a","b"," ","l","e">>, <<"a","p","p","l","y">>, <<"a","p","p","l","e","1">> }
SingleLetters == {<<c>> : c \in Range(LowerSeq) \cup Range(UpperSeq)}
UnitWords == StringsUpTo(MaxLen) \cup NamedWords \cup SingleLetters
UnitTotals == {0, 27}

InitUnit ==
    /\ total_score \in UnitTotals
    /\ current_round = 1
    /\ required_length \in MIN_LENGTH..MAX_LENGTH
    /\ timer_running = TRUE
    /\ stop_event = FALSE
    /\ threads = <<NewThread>>
    /\ timer_label \in {TimerText(r) : r \in 0..ROUND_SECONDS}
    /\ warning_label = NoText
    /\ after0 = <<>>
    /\ pending_start = 0
    /\ main_pc = "unit"
    /\ main_more = 0
    /\ screen = "game"
    /\ quit_pending = FALSE
    /\ mainloop = FALSE
    /\ hist = NoHistory
    /\ call = NoCall

UnitCheckWord ==
    /\ main_pc = "unit" /\ call.fn = "none"
    /\ \E text \in UnitWords :
          /\ check_word(text)
          /\ call' = [fn |-> "check_word", word |-> text, n |-> 0,
                      before |-> total_score, ret |-> 0]

UnitScore ==
    /\ main_pc = "unit" /\ call.fn = "none"
    /\ \E word \in UnitWords :
          call' = [fn |-> "calculate_score", word |-> word, n |-> 0,
                   before |-> total_score, ret |-> calculate_score(word)]
    /\ UNCHANGED game_vars

UnitBonus ==
    /\ main_pc = "unit" /\ call.fn = "none"
    /\ \E elapsed \in 0..MaxElapsed :
          call' = [fn |-> "calculate_time_bonus", word |-> <<>>, n |-> elapsed,
                   before |-> total_score, ret |-> calculate_time_bonus(elapsed)]
    /\ UNCHANGED game_vars

NextUnit == UnitCheckWord \/ UnitScore \/ UnitBonus

SpecUnit == InitUnit /\ [][NextUnit]_vars

-----------------------------------------------------------------------------
(* Properties of the pure functions and of check_word, on the unit harness *)

AsciiLetters == Range(LowerSeq) \cup Range(UpperSeq)
OnlyLetters(w) == w # <<>> /\ \A i \in 1..Len(w) : w[i] \in AsciiLetters
Occurrences(w, cs) == Cardinality({i \in 1..Len(w) : w[i] \in cs})
RECURSIVE ScoreByLetter(_, _)
\* the score counted letter by letter of the alphabet instead of position by position
ScoreByLetter(w, k) ==
    IF k = 0 THEN 0
    ELSE Occurrences(w, {LowerSeq[k], UpperSeq[k]}) * letter_values[UpperSeq[k]]
         + ScoreByLetter(w, k - 1)

ScoreText == "Score: {} (Bonus: {})"
Cabbage == <<"c","a","b","b","a","g","e">>

\* C1 as stated: every entry text that is empty or holds a non-letter is reported as
\* not alphabetic, an all-letter text of another length as a wrong length, and "not in
\* the dictionary" exactly for an all-letter text of the required length that is no word
C1_AsStated ==
    call.fn = "check_word" =>
        LET w == call.word
            req == required_length
        IN  /\ ~OnlyLetters(w) => warning_label = MsgNotAlphabetic
            /\ (OnlyLetters(w) /\ Len(w) # req) => warning_label = MsgWrongLength(req)
            /\ warning_label = MsgNotInDictionary <=>
                   (OnlyLetters(w) /\ Len(w) = req /\ Lower(w) \notin Dictionary)

\* C1 amended: the checks run in the order alphabetic, length, dictionary on the entry
\* text with its leading and trailing whitespace stripped, and only the first failing
\* one is reported
C1_ValidationOrder ==
    call.fn = "check_word" =>
        LET w == Strip(call.word)
            req == required_length
        IN  /\ ~OnlyLetters(w) => warning_label = MsgNotAlphabetic
            /\ (OnlyLetters(w) /\ Len(w) # req) => warning_label = MsgWrongLength(req)
            /\ warning_label = MsgNotInDictionary <=>
                   (OnlyLetters(w) /\ Len(w) = req /\ Lower(w) \notin Dictionary)
            /\ warning_label.msg = ScoreText <=>
                   (OnlyLetters(w) /\ Len(w) = req /\ Lower(w) \in Dictionary)

\* "1a" with required length 5 has been reported as not alphabetic
C1_Witness ==
    /\ call.fn = "check_word"
    /\ call.word = <<"1","a">>
    /\ required_length = 5
    /\ warning_label = MsgNotAlphabetic

\* C2: calculate_time_bonus returns 20 for 0..5, 10 for 6..10, 5 for 11..15 and 0 above
C2_BonusTiers ==
    call.fn = "calculate_time_bonus" =>
        /\ call.n \in 0..5 => call.ret = 20
        /\ call.n \in 6..10 => call.ret = 10
        /\ call.n \in 11..15 => call.ret = 5
        /\ call.n > 15 => call.ret = 0

\* the bonus of 16 elapsed seconds has been computed
C2_Witness ==
    /\ call.fn = "calculate_time_bonus"
    /\ call.n = 16
    /\ call.ret = 0

\* C3: the score is the sum of the letters' table values whatever their case, a
\* non-letter counts 0, every letter counts 1..10, "apple" scores 9 and "orange" 7
C3_ScoreCaseInsensitive ==
    call.fn = "calculate_score" =>
        LET w == call.word
        IN  /\ call.ret = ScoreByLetter(w, 26)
            /\ calculate_score(Upper(w)) = call.ret
            /\ calculate_score(Lower(w)) = call.ret
            /\ w = <<>> => call.ret = 0
            /\ (Len(w) = 1 /\ w[1] \in AsciiLetters) => call.ret \in 1..10
            /\ (Len(w) = 1 /\ w[1] \notin AsciiLetters) => call.ret = 0
            /\ w = <<"a","p","p","l","e">> => call.ret = 9
            /\ w = <<"o","r","a","n","g","e">> => call.ret = 7

\* the mixed-case "oRANGe" has been scored 7
C3_Witness ==
    /\ call.fn = "calculate_score"
    /\ call.word = <<"o","R","A","N","G","e">>
    /\ call.ret = 7

\* C4: a valid submission made while the timer label shows r is reported with the
\* word's score as base and calculate_time_bonus(15 - r) as bonus, and total_score
\* grows by their sum
C4_BaseAndBonus ==
    call.fn = "check_word" =>
        LET w == Strip(call.word)
            r == timer_label[3]
            valid == OnlyLetters(w) /\ Len(w) = required_length /\ Lower(w) \in Dictionary
        IN  /\ valid =>
                /\ warning_label = MsgScore(ScoreByLetter(w, 26),
                                            calculate_time_bonus(15 - r))
                /\ total_score = call.before + warning_label.n + warning_label.b
                /\ r >= 10 => warning_label.b = 20
                /\ r \in 5..9 => warning_label.b = 10
                /\ r \in 0..4 => warning_label.b = 5
                /\ w = Cabbage => warning_label.n = 14
            /\ ~valid => total_score = call.before

\* "cabbage" has been accepted with 4 seconds showing: base 14, bonus 5, 19 more points
C4_Witness ==
    /\ call.fn = "check_word"
    /\ call.word = Cabbage
    /\ timer_label = TimerText(4)
    /\ warning_label = MsgScore(14, 5)
    /\ call.before = 27
    /\ total_score = 46

-----------------------------------------------------------------------------
(* Properties of the running game *)

AliveThreads(ths) == {i \in DOMAIN ths : Alive(ths[i])}

\* a step in which a countdown thread queues a tick, reports the timeout or
\* schedules the next round
TimerEmits ==
    \/ Len(after0') > Len(after0)
    \/ \E i \in DOMAIN threads :
          /\ i \in DOMAIN threads'
          /\ threads[i].pc \in {"exp_warn", "exp_after"}
          /\ threads'[i].pc # threads[i].pc
          /\ mainloop

\* a step in which check_word turns the submission down
RejectStep == warning_label' \in RejectionTexts /\ warning_label' # warning_label

\* C5: total_score is the sum of base + bonus of the rounds scored before their timer
\* expired; a round that timed out contributes nothing
C5_AsStated == total_score = hist.round_sum

\* C6: a rejected submission changes nothing but the warning shown: the score, the
\* round, the required length, the scheduled start_round calls and the running
\* countdown stay as they are
C6_RejectionFrame ==
    [][RejectStep =>
          UNCHANGED <<total_score, current_round, required_length, pending_start,
                      threads, stop_event, timer_running, timer_label, after0,
                      main_pc, screen>>]_vars

\* a rejection is on display while the countdown of the round is still running and
\* no start_round is scheduled
C6_Witness ==
    /\ warning_label \in RejectionTexts
    /\ main_pc = "idle"
    /\ pending_start = 0
    /\ ~stop_event
    /\ \E i \in DOMAIN threads : threads[i].pc = "check" /\ threads[i].remaining = 9
    /\ current_round = 2

\* C7: once a valid submission has been accepted, the countdown of that round emits
\* no further tick and no expiry
C7_AsStated == [][hist.scored => ~TimerEmits]_vars

\* C8: after the timer of the round has expired, a submission changes neither
\* total_score nor the scheduled start_round calls
C8_AsStated ==
    [][(hist.expired /\ ~hist'.in_reset) =>
          (total_score' = total_score /\ pending_start' <= pending_start)]_vars

\* C9: the end-game screen is reached with current_round = max_rounds, and from then
\* on no check_word changes total_score
C9_AsStated ==
    [][/\ screen = "end" => current_round = max_rounds
       /\ (screen = "end" /\ screen' = "end") => total_score' = total_score]_vars

\* C10: when reset_game returns, total_score is 0, current_round is 1 and exactly one
\* countdown thread is running
C10_AsStated ==
    [][(hist.in_reset /\ ~hist'.in_reset) =>
          /\ total_score' = 0
          /\ current_round' = 1
          /\ Cardinality(AliveThreads(threads')) = 1]_vars

\* C11: quit_game is terminal: once it has run, the countdown emits no tick and no
\* expiry, no start_round runs and total_score never changes
C11_AsStated ==
    [][quit_pending =>
          /\ ~TimerEmits
          /\ current_round' = current_round
          /\ total_score' = total_score]_vars

\* a step in which a new countdown thread is started
Launch ==
    /\ threads' # <<>>
    /\ threads'[Len(threads')] = NewThread
    /\ \/ threads = <<>>
       \/ Len(threads') > Len(threads)
       \/ threads[Len(threads)] # NewThread

\* C12: at most one countdown thread is alive in every reachable state, and a new
\* countdown thread is started only when every earlier one has halted
C12_OneCountdown ==
    /\ [](Cardinality(AliveThreads(threads)) <= 1)
    /\ [][Launch => AliveThreads(threads) = {}]_vars

\* round 2 has begun: the thread of round 1 was joined and the new one has just been
\* started
C12_Witness ==
    /\ current_round = 2
    /\ main_pc = "idle"
    /\ ~stop_event
    /\ threads = <<NewThread>>

\* C13: a round that has ended, by an accepted submission or by the expiry of its
\* timer, gets exactly one start_round: once the round is scored or expired nothing
\* schedules a further start_round for it, and current_round moves on by 1 at a time
C13_AsStated ==
    [][/\ (hist.scored \/ hist.expired) => pending_start' <= pending_start
       /\ ~hist'.in_reset => current_round' \in {current_round, current_round + 1}]_vars

\* C14: a round adds to total_score at most once: from the acceptance of a submission
\* until the next start_round no check_word changes total_score
C14_AsStated ==
    [][(hist.scored /\ ~hist'.in_reset) => total_score' = total_score]_vars

\* the countdown thread t has left its loop through the break of line 172
BrokeOnStop(t) == t.pc = "final" /\ t.remaining >= 1

\* C15: a countdown thread that has seen the stop signal goes on to its end without a
\* further tick or expiry, and while the stop signal is set no tick and no expiry is
\* emitted at all (so at most one between the setting of the signal and the halt)
C15_Cooperative ==
    [][/\ \A i \in DOMAIN threads :
             BrokeOnStop(threads[i]) =>
                 /\ i \in DOMAIN threads'
                 /\ threads'[i].pc \in {"final", "done"}
                 /\ ~TimerEmits
       /\ stop_event => ~TimerEmits]_vars

\* start_timer waits in join and the thread of the round, stopped with 9 seconds
\* left, has halted
C15_Witness ==
    /\ stop_event
    /\ main_pc = "join"
    /\ mainloop
    /\ \E i \in DOMAIN threads : threads[i] = [pc |-> "done", remaining |-> 9]

\* a step in which a countdown thread reports "Time's up!"
ExpiryStep ==
    \E i \in DOMAIN threads :
        /\ i \in DOMAIN threads'
        /\ threads[i].pc = "exp_warn"
        /\ threads'[i].pc = "exp_after"

\* C16: the countdown of a round reports 15, 14, ..., 1 and then 0, each value one
\* less than the one before and within 0..15, never while the stop signal is set;
\* "Time's up!" comes only after the 0 and only without stop signal, and once the
\* expiry is through the countdown emits nothing more
C16_Countdown ==
    /\ [](\A k \in DOMAIN after0 : after0[k] \in 0..ROUND_SECONDS)
    /\ [][Len(after0') > Len(after0) =>
             /\ after0'[Len(after0')] = hist.last_tick - 1
             /\ ~stop_event]_vars
    /\ [][ExpiryStep => (hist.last_tick = 0 /\ ~stop_event)]_vars
    /\ [][hist.expired => ~TimerEmits]_vars

\* the countdown of round 2 has run down: 0 was reported and shown, "Time's up!" is
\* on display and the thread has ended
C16_Witness ==
    /\ current_round = 2
    /\ hist.expired
    /\ hist.last_tick = 0
    /\ timer_label = TimerText(0)
    /\ warning_label = MsgTimesUp
    /\ AliveThreads(threads) = {}

\* a step in which check_word accepts a submission
AcceptStep == hist'.accepted > hist.accepted

\* C17: the remaining value check_word reads from the timer label when it scores a
\* submission was written there by the countdown of the current round, or is 15 when
\* that countdown has not yet been shown; it is never what an earlier round left
C17_AsStated ==
    [][AcceptStep => (hist.label_fresh \/ ParseRemaining(timer_label) = ROUND_SECONDS)]_vars

\* C18: the round counter stays within 0..max_rounds in every reachable state
C18_RoundRange == current_round \in 0..max_rounds

\* round 10 has timed out and the start_round it scheduled has run with
\* current_round = max_rounds: the end-game screen is up and the counter stayed at 10
C18_Witness ==
    /\ screen = "end"
    /\ current_round = max_rounds
    /\ hist.expired
    /\ pending_start = 0

\* C19: played without reset_game and quit_game, with the countdown thread and the
\* event loop scheduled fairly, the game reaches the end-game screen whatever is
\* submitted, and every wait of start_timer in join comes to an end
C19_AsStated ==
    /\ <>(screen = "end")
    /\ (main_pc = "join") ~> (main_pc = "idle")

\* C20: the timer label always shows a remaining value within 0..15, so every bonus
\* added to total_score by an accepted submission is 5, 10 or 20, never 0
C20_BonusNeverZero ==
    /\ [](ParseRemaining(timer_label) \in 0..ROUND_SECONDS)
    /\ [][AcceptStep =>
             /\ ElapsedTime(timer_label) \in 0..ROUND_SECONDS
             /\ warning_label'.b \in {5, 10, 20}
             /\ total_score' - total_score - warning_label'.n \in {5, 10, 20}]_vars

\* "cab" has been accepted in the game with 0 seconds showing, the largest elapsed
\* time there is: bonus 5
C20_Witness ==
    /\ hist.scored
    /\ timer_label = TimerText(0)
    /\ warning_label = MsgScore(7, 5)
    /\ total_score = 12

====
